---------------------------- MODULE Spec2Model ----------------------------
(***************************************************************************)
(* A model of src/src/retry.ts: the error classifier                      *)
(* isRetryableFirestoreError, the delay computation calculateDelay, the   *)
(* attempt loop retryOperation, and the RetryableBatch accumulator.       *)
(*                                                                         *)
(* JavaScript values are records [t, s, n, d]: t is the type tag, s the   *)
(* characters of a string (a tuple of one-character strings), and n/d the *)
(* exact value of a number (d = 0 is NaN).  Numbers are kept as exact     *)
(* rationals; floating-point rounding is not modelled.                    *)
(***************************************************************************)
EXTENDS Integers, Sequences, FiniteSets, TLC

VARIABLES
    pc,             \* per call: where the retryOperation invocation stands
    finalConfig,    \* per call: the merged configuration (retry.ts:102)
    operationName,  \* per call: the operationName argument
    operation,      \* per call: which callable was handed in
    attempt,        \* per call: the loop counter (retry.ts:104)
    opOutcomes,     \* per call: the outcome of every invocation of operation()
    delays,         \* per call: every delay handed to sleep(), with its attempt
    settled,        \* per call: how the promise of retryOperation settled
    logs,           \* console.warn lines written so far
    batchConfig,    \* RetryableBatch.config
    batchOps,       \* the writes handed to the underlying WriteBatch
    operationCount, \* RetryableBatch.operationCount
    commitCalls,    \* invocations of the underlying WriteBatch.commit()
    commitPromise,  \* how the promise of the last RetryableBatch.commit() stands
    classified,     \* the classifier applied to one error value
    computed,       \* calculateDelay applied to one (attempt, config, draw)
    observedCount,  \* what the last getOperationCount() returned
    preset          \* the member of RetryConfigs the caller passes as config

vars == <<pc, finalConfig, operationName, operation, attempt, opOutcomes,
          delays, settled, logs, batchConfig, batchOps, operationCount,
          commitCalls, commitPromise, classified, computed, observedCount,
          preset>>

---------------------------------------------------------------------------
(* JavaScript values                                                       *)

Undefined == [t |-> "undefined", s |-> <<>>, n |-> 0, d |-> 1]
Null == [t |-> "null", s |-> <<>>, n |-> 0, d |-> 1]
Str(chars) == [t |-> "string", s |-> chars, n |-> 0, d |-> 1]
Rat(num, den) == [t |-> "number", s |-> <<>>, n |-> num, d |-> den]
Num(k) == Rat(k, 1)
NaN == Rat(0, 0)
\* A property that the object does not have (only inside a partial config).
Absent == [t |-> "absent", s |-> <<>>, n |-> 0, d |-> 1]

\* ToNumber on the operands the program meets: undefined is NaN, null is 0.
ToNumber(v) ==
    IF v.t = "number" THEN v
    ELSE IF v.t = "null" THEN Num(0)
    ELSE NaN

\* a * b
JSTimes(a, b) ==
    LET x == ToNumber(a)
        y == ToNumber(b)
    IN  IF x.d = 0 \/ y.d = 0 THEN NaN ELSE Rat(x.n * y.n, x.d * y.d)

\* a + b, on numbers
JSPlus(a, b) ==
    LET x == ToNumber(a)
        y == ToNumber(b)
    IN  IF x.d = 0 \/ y.d = 0 THEN NaN
        ELSE Rat(x.n * y.d + y.n * x.d, x.d * y.d)

\* a <= b: false as soon as one side is NaN
JSLessEq(a, b) ==
    LET x == ToNumber(a)
        y == ToNumber(b)
    IN  x.d # 0 /\ y.d # 0 /\ x.n * y.d <= y.n * x.d

\* a === b
JSStrictEq(a, b) ==
    /\ a.t = b.t
    /\ CASE a.t = "number" -> a.d # 0 /\ b.d # 0 /\ a.n * b.d = b.n * a.d
         [] a.t = "string" -> a.s = b.s
         [] OTHER -> TRUE

\* Math.min(a, b): NaN as soon as one side is NaN
MathMin(a, b) ==
    LET x == ToNumber(a)
        y == ToNumber(b)
    IN  IF x.d = 0 \/ y.d = 0 THEN NaN
        ELSE IF x.n * y.d <= y.n * x.d THEN x ELSE y

\* Math.pow(2, k) for the integer exponents attempt - 1 >= 0 of the loop
MathPow2(k) == Num(2 ^ k)

\* Math.round(v): the nearest integer, halves rounded up
MathRound(v) ==
    IF v.t # "number" \/ v.d = 0 THEN NaN
    ELSE Num((2 * v.n + v.d) \div (2 * v.d))

\* Truthiness of the values the || chain of the classifier meets.
Truthy(v) ==
    CASE v.t = "string" -> v.s # <<>>
      [] v.t = "number" -> v.d # 0 /\ v.n # 0
      [] OTHER -> FALSE

---------------------------------------------------------------------------
(* Strings                                                                 *)

UpperChars == <<"A", "B", "C", "D", "E", "F", "G", "H", "I", "J", "K", "L", "M",
                "N", "O", "P", "Q", "R", "S", "T", "U", "V", "W", "X", "Y", "Z">>
LowerChars == <<"a", "b", "c", "d", "e", "f", "g", "h", "i", "j", "k", "l", "m",
                "n", "o", "p", "q", "r", "s", "t", "u", "v", "w", "x", "y", "z">>

toLowerChar(c) ==
    IF \E i \in 1..Len(UpperChars) : UpperChars[i] = c
    THEN LowerChars[CHOOSE i \in 1..Len(UpperChars) : UpperChars[i] = c]
    ELSE c

\* String.prototype.toLowerCase
toLowerCase(chars) == [i \in 1..Len(chars) |-> toLowerChar(chars[i])]

\* String.prototype.includes
includes(chars, pattern) ==
    \E i \in 0..(Len(chars) - Len(pattern)) :
        SubSeq(chars, i + 1, i + Len(pattern)) = pattern

Pat_rst_stream == <<"r", "s", "t", "_", "s", "t", "r", "e", "a", "m">>
Pat_quota_exceeded == <<"q", "u", "o", "t", "a", " ", "e", "x", "c", "e", "e", "d", "e", "d">>
Pat_write_limit == <<"w", "r", "i", "t", "e", " ", "l", "i", "m", "i", "t">>
Pat_unavailable == <<"u", "n", "a", "v", "a", "i", "l", "a", "b", "l", "e">>
Pat_timeout == <<"t", "i", "m", "e", "o", "u", "t">>
Pat_deadline_exceeded == <<"d", "e", "a", "d", "l", "i", "n", "e", " ", "e", "x", "c", "e", "e", "d", "e", "d">>
Pat_internal_server_error == <<"i", "n", "t", "e", "r", "n", "a", "l", " ", "s", "e", "r", "v", "e", "r", " ", "e", "r", "r", "o", "r">>
Pat_resource_exhausted == <<"r", "e", "s", "o", "u", "r", "c", "e", " ", "e", "x", "h", "a", "u", "s", "t", "e", "d">>

---------------------------------------------------------------------------
(* Error values.  kind is "object", "null", "undefined" or "primitive"; an *)
(* object carries the four properties the classifier reads.  The errors   *)
(* retry.ts creates itself have kind "TypeError" and "Error".             *)

ErrorObject(code, message, details, msg) ==
    [kind |-> "object", code |-> code, message |-> message,
     details |-> details, msg |-> msg]
ErrorNull == [kind |-> "null", code |-> Undefined, message |-> Undefined,
              details |-> Undefined, msg |-> Undefined]
ErrorUndefined == [kind |-> "undefined", code |-> Undefined, message |-> Undefined,
                   details |-> Undefined, msg |-> Undefined]
\* A thrown string or number: it has none of the four properties.
ErrorPrimitive == [kind |-> "primitive", code |-> Undefined, message |-> Undefined,
                   details |-> Undefined, msg |-> Undefined]

\* error?.code, error?.message, ...: undefined on null and undefined
GetProp(error, field) ==
    IF error.kind = "object" THEN error[field] ELSE Undefined

\* value?.toLowerCase(): undefined on null and undefined, the lowered string
\* on a string; on any other value toLowerCase is not a function and the
\* call throws a TypeError.
OptionalToLowerCase(value) ==
    IF value.t \in {"undefined", "null"} THEN [threw |-> FALSE, val |-> Undefined]
    ELSE IF value.t = "string"
         THEN [threw |-> FALSE, val |-> Str(toLowerCase(value.s))]
         ELSE [threw |-> TRUE, val |-> Undefined]

---------------------------------------------------------------------------
(* isRetryableFirestoreError (retry.ts:26-71).  The result is             *)
(* [threw, value]: threw when the evaluation ends in a TypeError, value   *)
(* the boolean returned otherwise.                                        *)

\* retry.ts:27-31: the || chain stops at the first truthy operand, and an
\* operand that throws ends the evaluation.
errorMessageOf(error) ==
    LET m1 == OptionalToLowerCase(GetProp(error, "message"))
        m2 == OptionalToLowerCase(GetProp(error, "details"))
        m3 == OptionalToLowerCase(GetProp(error, "msg"))
    IN  IF m1.threw THEN m1
        ELSE IF Truthy(m1.val) THEN m1
        ELSE IF m2.threw THEN m2
        ELSE IF Truthy(m2.val) THEN m2
        ELSE IF m3.threw THEN m3
        ELSE IF Truthy(m3.val) THEN m3
        ELSE [threw |-> FALSE, val |-> Str(<<>>)]

\* A rule 5 that looks at the message only.
classifyRules_Rule5TextOnly(errorCode, errorMessage) ==
    IF JSStrictEq(errorCode, Num(13)) /\ includes(errorMessage, Pat_rst_stream)
    THEN TRUE
    ELSE IF includes(errorMessage, Pat_quota_exceeded)
            \/ includes(errorMessage, Pat_write_limit)
    THEN TRUE
    ELSE IF JSStrictEq(errorCode, Num(14)) \/ includes(errorMessage, Pat_unavailable)
    THEN TRUE
    ELSE IF includes(errorMessage, Pat_timeout)
            \/ includes(errorMessage, Pat_deadline_exceeded)
    THEN TRUE
    ELSE IF includes(errorMessage, Pat_internal_server_error)
    THEN TRUE
    ELSE IF JSStrictEq(errorCode, Num(8))
            \/ includes(errorMessage, Pat_resource_exhausted)
    THEN TRUE
    ELSE FALSE

\* retry.ts:39-70: rules 2 to 6, in the order of the source.
classifyRulesAfterFirst(errorCode, errorMessage) ==
    IF includes(errorMessage, Pat_quota_exceeded)
       \/ includes(errorMessage, Pat_write_limit)
    THEN TRUE
    ELSE IF JSStrictEq(errorCode, Num(14)) \/ includes(errorMessage, Pat_unavailable)
    THEN TRUE
    ELSE IF includes(errorMessage, Pat_timeout)
            \/ includes(errorMessage, Pat_deadline_exceeded)
    THEN TRUE
    ELSE IF JSStrictEq(errorCode, Num(13))
            \/ includes(errorMessage, Pat_internal_server_error)
    THEN TRUE
    ELSE IF JSStrictEq(errorCode, Num(8))
            \/ includes(errorMessage, Pat_resource_exhausted)
    THEN TRUE
    ELSE FALSE

\* retry.ts:34-70: the six rules, in the order of the source.
classifyRules(errorCode, errorMessage) ==
    IF JSStrictEq(errorCode, Num(13)) /\ includes(errorMessage, Pat_rst_stream)
    THEN TRUE
    ELSE IF includes(errorMessage, Pat_quota_exceeded)
            \/ includes(errorMessage, Pat_write_limit)
    THEN TRUE
    ELSE IF JSStrictEq(errorCode, Num(14)) \/ includes(errorMessage, Pat_unavailable)
    THEN TRUE
    ELSE IF includes(errorMessage, Pat_timeout)
            \/ includes(errorMessage, Pat_deadline_exceeded)
    THEN TRUE
    ELSE IF JSStrictEq(errorCode, Num(13))
            \/ includes(errorMessage, Pat_internal_server_error)
    THEN TRUE
    ELSE IF JSStrictEq(errorCode, Num(8))
            \/ includes(errorMessage, Pat_resource_exhausted)
    THEN TRUE
    ELSE FALSE

isRetryableFirestoreError(error) ==
    LET m == errorMessageOf(error)
    IN  IF m.threw THEN [threw |-> TRUE, value |-> FALSE]
        ELSE [threw |-> FALSE,
              value |-> classifyRules(GetProp(error, "code"), m.val.s)]

---------------------------------------------------------------------------
(* The error values the classifier is applied to.                         *)

Txt_PermissionDenied == <<"p", "e", "r", "m", "i", "s", "s", "i", "o", "n", " ", "d", "e", "n", "i", "e", "d">>
Txt_Unavailable == <<"u", "n", "a", "v", "a", "i", "l", "a", "b", "l", "e">>
Txt_UpperUnavailable == <<"S", "e", "r", "v", "i", "c", "e", " ", "U", "N", "A", "V", "A", "I", "L", "A", "B", "L", "E">>
Txt_QuotaExceeded == <<"Q", "u", "o", "t", "a", " ", "e", "x", "c", "e", "e", "d", "e", "d", ".">>
Txt_WriteLimit == <<"w", "r", "i", "t", "e", " ", "l", "i", "m", "i", "t">>
Txt_Timeout == <<"T", "i", "m", "e", "o", "u", "t">>
Txt_DeadlineExceeded == <<"D", "e", "a", "d", "l", "i", "n", "e", " ", "E", "x", "c", "e", "e", "d", "e", "d">>
Txt_InternalServerError == <<"I", "n", "t", "e", "r", "n", "a", "l", " ", "S", "e", "r", "v", "e", "r", " ", "E", "r", "r", "o", "r">>
Txt_ResourceExhausted == <<"R", "e", "s", "o", "u", "r", "c", "e", " ", "E", "x", "h", "a", "u", "s", "t", "e", "d">>
Txt_RstStream == <<"R", "S", "T", "_", "S", "T", "R", "E", "A", "M">>
Txt_NotFound == <<"n", "o", "t", " ", "f", "o", "u", "n", "d">>
Txt_TimeOut == <<"t", "i", "m", "e", " ", "o", "u", "t">>
Txt_Str14 == <<"1", "4">>

SampleTexts ==
    {Txt_PermissionDenied, Txt_Unavailable, Txt_UpperUnavailable, Txt_QuotaExceeded,
     Txt_WriteLimit, Txt_Timeout, Txt_DeadlineExceeded, Txt_InternalServerError,
     Txt_ResourceExhausted, Txt_RstStream, Txt_NotFound, Txt_TimeOut}

\* The number a non-string message, details or msg holds in the samples.
SampleNumber == 42

\* What the code property may hold: nothing, a gRPC status, or the status as a string.
CodeValues ==
    {Undefined, Null, Num(7), Num(8), Num(13), Num(14), Str(Txt_Str14)}

\* What message may hold: nothing, null, the empty string, a text, a non-string.
MessageValues ==
    {Undefined, Null, Str(<<>>), Num(SampleNumber), Num(0)}
        \cup {Str(t) : t \in SampleTexts}

\* What details and msg may hold.
LaterFieldValues ==
    {Undefined, Str(<<>>), Num(SampleNumber), Str(Txt_Unavailable),
     Str(Txt_NotFound), Str(Txt_DeadlineExceeded)}

ClassifierErrors ==
    {ErrorNull, ErrorUndefined, ErrorPrimitive}
        \cup {ErrorObject(c, m, d, g) :
                c \in CodeValues, m \in MessageValues,
                d \in LaterFieldValues, g \in LaterFieldValues}

NotClassified == [threw |-> FALSE, value |-> FALSE]

---------------------------------------------------------------------------
(* Configuration (retry.ts:6-21, 102) and calculateDelay (retry.ts:83-92) *)

DEFAULT_RETRY_CONFIG ==
    [maxRetries |-> Num(5), baseDelay |-> Num(1000),
     maxDelay |-> Num(30000), jitterFactor |-> Rat(1, 10)]

\* { ...DEFAULT_RETRY_CONFIG, ...config }: every own property of config,
\* whatever its value, replaces the default.
mergeConfig(config) ==
    [f \in DOMAIN DEFAULT_RETRY_CONFIG |->
        IF config[f].t = "absent" THEN DEFAULT_RETRY_CONFIG[f] ELSE config[f]]

\* Presets that each spell out the default jitterFactor as well.
RetryConfigs_WithJitter ==
    [FAST |-> [maxRetries |-> Num(3), baseDelay |-> Num(500),
               maxDelay |-> Num(5000), jitterFactor |-> Rat(1, 10)],
     STANDARD |-> [maxRetries |-> Num(5), baseDelay |-> Num(1000),
                   maxDelay |-> Num(30000), jitterFactor |-> Rat(1, 10)],
     AGGRESSIVE |-> [maxRetries |-> Num(10), baseDelay |-> Num(1000),
                     maxDelay |-> Num(60000), jitterFactor |-> Rat(1, 10)],
     PATIENT |-> [maxRetries |-> Num(7), baseDelay |-> Num(2000),
                  maxDelay |-> Num(120000), jitterFactor |-> Rat(1, 10)]]

\* retry.ts:239-275
RetryConfigs ==
    [FAST |-> [maxRetries |-> Num(3), baseDelay |-> Num(500),
               maxDelay |-> Num(5000), jitterFactor |-> Absent],
     STANDARD |-> [maxRetries |-> Num(5), baseDelay |-> Num(1000),
                   maxDelay |-> Num(30000), jitterFactor |-> Absent],
     AGGRESSIVE |-> [maxRetries |-> Num(10), baseDelay |-> Num(1000),
                     maxDelay |-> Num(60000), jitterFactor |-> Absent],
     PATIENT |-> [maxRetries |-> Num(7), baseDelay |-> Num(2000),
                  maxDelay |-> Num(120000), jitterFactor |-> Absent]]

PresetNames == {"FAST", "STANDARD", "AGGRESSIVE", "PATIENT"}

\* A linear backoff in place of the doubling.
exponentialDelay_Linear(n, config) == JSTimes(config.baseDelay, Num(n))

\* retry.ts:87
exponentialDelay(n, config) == JSTimes(config.baseDelay, MathPow2(n - 1))

\* retry.ts:88, random being the value Math.random() returned
jitterOf(n, config, random) ==
    JSTimes(JSTimes(exponentialDelay(n, config), config.jitterFactor), random)

\* The cap of retry.ts:91 left out.
calculateDelay_NoCap(n, config, random) ==
    JSPlus(exponentialDelay(n, config), jitterOf(n, config, random))

\* retry.ts:89-91
calculateDelay(n, config, random) ==
    LET totalDelay == JSPlus(exponentialDelay(n, config), jitterOf(n, config, random))
    IN  MathMin(totalDelay, config.maxDelay)

\* Math.random() returns k / RandomDen for some k in 0 .. RandomDen - 1.
RandomDen == 2
RandomDraws == {Rat(k, RandomDen) : k \in 0..(RandomDen - 1)}

---------------------------------------------------------------------------
(* retryOperation (retry.ts:97-132)                                       *)

CallIds == {1, 2}

Txt_MaxRetriesPrefix == <<"M", "a", "x", " ", "r", "e", "t", "r", "i", "e", "s", " ", "e", "x", "c", "e", "e", "d", "e", "d", " ", "f", "o", "r", " ">>
Txt_NameOperation == <<"o", "p", "e", "r", "a", "t", "i", "o", "n">>
Txt_NameBatchCommit == <<"F", "i", "r", "e", "s", "t", "o", "r", "e", " ", "b", "a", "t", "c", "h", " ", "c", "o", "m", "m", "i", "t">>
Txt_NameJob == <<"j", "o", "b">>

\* An error together with the identity of the object: ref is the number of
\* the invocation of operation() that threw it, 0 for an error object that
\* retry.ts itself creates.
Thrown(ref, val) == [ref |-> ref, val |-> val]
NoError == Thrown(0, ErrorUndefined)

\* The TypeError of calling a toLowerCase that is not a function.
TypeErrorValue ==
    [kind |-> "TypeError", code |-> Undefined, message |-> Undefined,
     details |-> Undefined, msg |-> Undefined]

\* retry.ts:131: new Error(`Max retries exceeded for ${operationName}`)
MaxRetriesError(name) ==
    [kind |-> "Error", code |-> Undefined,
     message |-> Str(Txt_MaxRetriesPrefix \o name),
     details |-> Undefined, msg |-> Undefined]

Pending == [state |-> "pending", value |-> "", error |-> NoError]
NotCalled == [state |-> "none", value |-> "", error |-> NoError]
Fulfilled(v) == [state |-> "fulfilled", value |-> v, error |-> NoError]
Rejected(e) == [state |-> "rejected", value |-> "", error |-> e]

\* retry.ts:119-124: the line console.warn writes
RetryLog(name, delay, n, config, error) ==
    [line |-> "retry", name |-> name, ms |-> MathRound(delay), attempt |-> n,
     maxRetries |-> config.maxRetries, message |-> GetProp(error, "message")]

\* retry.ts:212
EmptyBatchLog ==
    [line |-> "emptyBatch", name |-> <<>>, ms |-> Num(0), attempt |-> 0,
     maxRetries |-> Undefined, message |-> Undefined]

\* A loop that runs while attempt < maxRetries.
loopContinues_Strict(n, config) ==
    JSLessEq(Num(n), config.maxRetries) /\ ~JSStrictEq(Num(n), config.maxRetries)

\* A loop that makes its first attempt whatever the limit.
loopContinues_AtLeastOnce(n, config) ==
    n = 1 \/ JSLessEq(Num(n), config.maxRetries)

\* A loop with no bound on the attempts.
loopContinues_Unbounded(n, config) == TRUE

\* retry.ts:104, the loop condition
loopContinues(n, config) == JSLessEq(Num(n), config.maxRetries)

\* The last attempt recognised one attempt late.
isLastAttempt_OffByOne(n, config) == JSStrictEq(Num(n - 1), config.maxRetries)

\* retry.ts:110, the first operand of the test in the catch block
isLastAttempt(n, config) == JSStrictEq(Num(n), config.maxRetries)

\* The number of times operation() has been invoked by call c.
Invocations(c) ==
    Len(opOutcomes[c]) + (IF pc[c] = "awaitOperation" THEN 1 ELSE 0)

\* A loop whose attempt counter is one variable shared by all calls.
LoopHead_SharedCounter(c, n, config, name, op) ==
    /\ attempt' = [b \in CallIds |-> n]
    /\ IF loopContinues(n, config)
       THEN /\ pc' = [pc EXCEPT ![c] = "awaitOperation"]
            /\ settled' = [settled EXCEPT ![c] = Pending]
            /\ commitCalls' = IF op = "batchCommit" THEN commitCalls + 1 ELSE commitCalls
            /\ commitPromise' = IF op = "batchCommit" THEN Pending ELSE commitPromise
       ELSE /\ pc' = [pc EXCEPT ![c] = "rejected"]
            /\ settled' = [settled EXCEPT
                              ![c] = Rejected(Thrown(0, MaxRetriesError(name)))]
            /\ commitCalls' = commitCalls
            /\ commitPromise' =
                  IF op = "batchCommit"
                  THEN Rejected(Thrown(0, MaxRetriesError(name)))
                  ELSE commitPromise

\* retry.ts:104-106 and 131: the head of the loop with the counter at n.
\* Either operation() is invoked and awaited, or the loop is left and the
\* generic error is thrown.
LoopHead(c, n, config, name, op) ==
    /\ attempt' = [attempt EXCEPT ![c] = n]
    /\ IF loopContinues(n, config)
       THEN /\ pc' = [pc EXCEPT ![c] = "awaitOperation"]
            /\ settled' = [settled EXCEPT ![c] = Pending]
            /\ commitCalls' = IF op = "batchCommit" THEN commitCalls + 1
                              ELSE commitCalls
            /\ commitPromise' = IF op = "batchCommit" THEN Pending
                                ELSE commitPromise
       ELSE /\ pc' = [pc EXCEPT ![c] = "rejected"]
            /\ settled' = [settled EXCEPT
                              ![c] = Rejected(Thrown(0, MaxRetriesError(name)))]
            /\ commitCalls' = commitCalls
            /\ commitPromise' =
                  IF op = "batchCommit"
                  THEN Rejected(Thrown(0, MaxRetriesError(name)))
                  ELSE commitPromise

\* retryOperation(operation, operationName, config) is called (retry.ts:97-104).
StartRetry(c, op, name, config) ==
    /\ pc[c] = "idle"
    /\ finalConfig' = [finalConfig EXCEPT ![c] = mergeConfig(config)]
    /\ operationName' = [operationName EXCEPT ![c] = name]
    /\ operation' = [operation EXCEPT ![c] = op]
    /\ LoopHead(c, 1, mergeConfig(config), name, op)
    /\ UNCHANGED <<opOutcomes, delays, logs>>

\* retry.ts:106: the awaited operation() resolves with value v.
OperationResolves(c, v) ==
    /\ pc[c] = "awaitOperation"
    /\ opOutcomes' = [opOutcomes EXCEPT
                         ![c] = Append(@, [ok |-> TRUE, value |-> v, error |-> NoError])]
    /\ pc' = [pc EXCEPT ![c] = "fulfilled"]
    /\ settled' = [settled EXCEPT ![c] = Fulfilled(v)]
    \* retry.ts:141-145: retryFirestoreBatchCommit drops the value
    /\ commitPromise' = IF operation[c] = "batchCommit" THEN Fulfilled("undefined")
                        ELSE commitPromise
    /\ UNCHANGED <<finalConfig, operationName, operation, attempt, delays, logs,
                   commitCalls>>

\* retry.ts:113: throw error
rethrow(c, error) ==
    /\ pc' = [pc EXCEPT ![c] = "rejected"]
    /\ settled' = [settled EXCEPT ![c] = Rejected(error)]
    /\ commitPromise' = IF operation[c] = "batchCommit" THEN Rejected(error)
                        ELSE commitPromise
    /\ UNCHANGED <<delays, logs>>

\* The catch block without its await sleep(delay).
backOff_SkipsSleep(c, error, random) ==
    LET delay == calculateDelay(attempt[c], finalConfig[c], random)
    IN  /\ logs' = Append(logs, RetryLog(operationName[c], delay, attempt[c],
                                         finalConfig[c], error.val))
        /\ pc' = [pc EXCEPT ![c] = "sleeping"]
        /\ UNCHANGED <<delays, settled, commitPromise>>

\* retry.ts:117-126: the delay is computed, logged and handed to sleep().
backOff(c, error, random) ==
    LET delay == calculateDelay(attempt[c], finalConfig[c], random)
    IN  /\ delays' = [delays EXCEPT
                         ![c] = Append(@, [attempt |-> attempt[c], ms |-> delay])]
        /\ logs' = Append(logs, RetryLog(operationName[c], delay, attempt[c],
                                         finalConfig[c], error.val))
        /\ pc' = [pc EXCEPT ![c] = "sleeping"]
        /\ UNCHANGED <<settled, commitPromise>>

\* A catch block that never asks the classifier.
catchDecision_IgnoresVerdict(n, config, val) ==
    IF isLastAttempt(n, config) THEN "throw" ELSE "retry"

\* retry.ts:109-114: what the catch block does with the value val caught at
\* attempt n.  The || evaluates the classifier only when this is not the
\* last attempt; a TypeError of the classifier leaves the catch block.
catchDecision(n, config, val) ==
    IF isLastAttempt(n, config) THEN "throw"
    ELSE LET verdict == isRetryableFirestoreError(val)
         IN  IF verdict.threw THEN "typeError"
             ELSE IF ~verdict.value THEN "throw"
             ELSE "retry"

\* retry.ts:107-127: the awaited operation() rejects with value val.
OperationRejects(c, val) ==
    /\ pc[c] = "awaitOperation"
    /\ LET error == Thrown(Len(opOutcomes[c]) + 1, val)
           decision == catchDecision(attempt[c], finalConfig[c], val)
       IN  /\ opOutcomes' = [opOutcomes EXCEPT
                                ![c] = Append(@, [ok |-> FALSE, value |-> "",
                                                  error |-> error])]
           /\ \/ /\ decision = "throw"
                 /\ rethrow(c, error)
              \/ /\ decision = "typeError"
                 /\ rethrow(c, Thrown(0, TypeErrorValue))
              \/ /\ decision = "retry"
                 /\ \E random \in RandomDraws : backOff(c, error, random)
    /\ UNCHANGED <<finalConfig, operationName, operation, attempt, commitCalls>>

\* retry.ts:76-78, 126, 104: the timer of sleep() fires, attempt++ and the
\* loop condition is tested again.
SleepElapses(c) ==
    /\ pc[c] = "sleeping"
    /\ LoopHead(c, attempt[c] + 1, finalConfig[c], operationName[c], operation[c])
    /\ UNCHANGED <<finalConfig, operationName, operation, opOutcomes, delays, logs>>

---------------------------------------------------------------------------
(* RetryableBatch (retry.ts:162-225)                                      *)

\* retry.ts:175-187
BatchSet(options) ==
    /\ batchOps' = Append(batchOps, [op |-> "set", options |-> options])
    /\ operationCount' = operationCount + 1

\* An update() that forwards the write and forgets to count it.
BatchUpdate_NoCount ==
    /\ batchOps' = Append(batchOps, [op |-> "update", options |-> FALSE])
    /\ operationCount' = operationCount

\* retry.ts:192-196
BatchUpdate ==
    /\ batchOps' = Append(batchOps, [op |-> "update", options |-> FALSE])
    /\ operationCount' = operationCount + 1

\* retry.ts:201-205
BatchDelete ==
    /\ batchOps' = Append(batchOps, [op |-> "delete", options |-> FALSE])
    /\ operationCount' = operationCount + 1

\* A commit() that starts over with an empty accumulator.
BatchCommit_ResetsCount(c) ==
    IF operationCount = 0
    THEN /\ logs' = Append(logs, EmptyBatchLog)
         /\ commitPromise' = Fulfilled("undefined")
         /\ UNCHANGED <<pc, finalConfig, operationName, operation, attempt,
                        opOutcomes, delays, settled, commitCalls,
                        batchConfig, batchOps, operationCount>>
    ELSE /\ StartRetry(c, "batchCommit", Txt_NameBatchCommit, batchConfig)
         /\ batchOps' = <<>>
         /\ operationCount' = 0
         /\ UNCHANGED batchConfig

\* A commit() that hands the batch on without this.config.
BatchCommit_DropsConfig(c) ==
    IF operationCount = 0
    THEN /\ logs' = Append(logs, EmptyBatchLog)
         /\ commitPromise' = Fulfilled("undefined")
         /\ UNCHANGED <<pc, finalConfig, operationName, operation, attempt,
                        opOutcomes, delays, settled, commitCalls,
                        batchConfig, batchOps, operationCount>>
    ELSE /\ StartRetry(c, "batchCommit", Txt_NameBatchCommit,
                       [maxRetries |-> Absent, baseDelay |-> Absent,
                        maxDelay |-> Absent, jitterFactor |-> Absent])
         /\ UNCHANGED <<batchConfig, batchOps, operationCount>>

\* retry.ts:210-217 with retryFirestoreBatchCommit (retry.ts:137-146)
BatchCommit(c) ==
    IF operationCount = 0
    THEN /\ logs' = Append(logs, EmptyBatchLog)
         /\ commitPromise' = Fulfilled("undefined")
         /\ UNCHANGED <<pc, finalConfig, operationName, operation, attempt,
                        opOutcomes, delays, settled, commitCalls,
                        batchConfig, batchOps, operationCount>>
    ELSE /\ StartRetry(c, "batchCommit", Txt_NameBatchCommit, batchConfig)
         /\ UNCHANGED <<batchConfig, batchOps, operationCount>>

\* retry.ts:222-224
GetOperationCount ==
    /\ observedCount' = operationCount
    /\ UNCHANGED <<pc, finalConfig, operationName, operation, attempt,
                   opOutcomes, delays, settled, logs, commitCalls, commitPromise,
                   batchConfig, batchOps, operationCount, classified, computed,
                   preset>>

---------------------------------------------------------------------------
(* Inputs                                                                  *)

\* The largest maxRetries a caller passes explicitly.
MaxRetriesBound == 3
\* The largest attempt number calculateDelay is applied to on its own.
MaxAttemptNumber == 5
\* The most writes added to one RetryableBatch.
MaxOperations == 2

PartialConfig(maxRetries, baseDelay, maxDelay, jitterFactor) ==
    [maxRetries |-> maxRetries, baseDelay |-> baseDelay,
     maxDelay |-> maxDelay, jitterFactor |-> jitterFactor]

ExplicitMaxRetries == {Num(k) : k \in 1..MaxRetriesBound}

OperationNames == {Txt_NameOperation, Txt_NameJob}

\* The (operationName, config) pairs retryOperation is called with: configs
\* that vary the attempt limit (maxRetries is typed number: 2.5 is one),
\* under both names; configs that vary the delays and leave fields
\* undefined; and a default-length sequence with a low cap.
CallInputs ==
    {[name |-> name, config |-> PartialConfig(r, Absent, Absent, j)] :
        name \in OperationNames,
        r \in {Absent, Undefined, Num(-1), Num(0), Rat(5, 2)} \cup ExplicitMaxRetries,
        j \in {Absent, Num(0)}}
    \cup
    {[name |-> Txt_NameOperation,
      config |-> PartialConfig(Num(MaxRetriesBound), b, m, j)] :
        b \in {Absent, Undefined, Num(0), Num(100)},
        m \in {Absent, Undefined, Num(50), Num(250)},
        j \in {Absent, Undefined, Rat(9, 10)}}
    \cup
    {[name |-> Txt_NameOperation,
      config |-> PartialConfig(Absent, Num(100), Num(250), Rat(9, 10))]}

\* The configs a RetryableBatch is constructed with.
BatchPartialConfigs ==
    {PartialConfig(r, b, Absent, j) :
        r \in {Num(0), Num(1), Num(3)},
        b \in {Absent, Num(100)},
        j \in {Absent, Rat(1, 2)}}

\* The configs of the RetryableBatch that is followed over several commits.
AccumulatorConfigs ==
    {PartialConfig(Num(r), Num(100), Absent, Num(0)) : r \in {1, 2}}

MaxCommits == 2

\* The resolved configs calculateDelay is applied to on its own.
DelayConfigs ==
    {PartialConfig(Num(MaxRetriesBound), Num(b), Num(m), j) :
        b \in {0, 1, 100, 1000}, m \in {0, 50, 250, 30000},
        j \in {Num(0), Rat(1, 10), Rat(1, 2), Rat(9, 10)}}

OperationValues == {"v1", "v2"}

PermissionDeniedError ==
    ErrorObject(Num(7), Str(Txt_PermissionDenied), Undefined, Undefined)
UnavailableError ==
    ErrorObject(Num(14), Str(Txt_Unavailable), Undefined, Undefined)
DeadlineDetailsError ==
    ErrorObject(Undefined, Undefined, Str(Txt_DeadlineExceeded), Undefined)
NonStringMessageError ==
    ErrorObject(Num(14), Num(SampleNumber), Undefined, Undefined)

\* What operation() rejects with.
OperationErrors ==
    {PermissionDeniedError, UnavailableError, DeadlineDetailsError,
     NonStringMessageError, ErrorNull, ErrorPrimitive}

---------------------------------------------------------------------------
(* Specifications                                                          *)

NoVerdict == [error |-> ErrorUndefined, done |-> FALSE, verdict |-> NotClassified]
NoDelay ==
    [config |-> DEFAULT_RETRY_CONFIG, attempt |-> 1, random |-> Num(0),
     done |-> FALSE, ms |-> Num(0)]

callVars == <<pc, finalConfig, operationName, operation, attempt, opOutcomes,
              delays, settled, logs, commitCalls, commitPromise>>
batchVars == <<batchConfig, batchOps, operationCount>>
NoPreset ==
    [name |-> "none",
     config |-> [maxRetries |-> Absent, baseDelay |-> Absent,
                 maxDelay |-> Absent, jitterFactor |-> Absent]]

pureVars == <<classified, computed, observedCount, preset>>

InitCalls ==
    /\ pc = [c \in CallIds |-> "idle"]
    /\ finalConfig = [c \in CallIds |-> DEFAULT_RETRY_CONFIG]
    /\ operationName = [c \in CallIds |-> <<>>]
    /\ operation = [c \in CallIds |-> "none"]
    /\ attempt = [c \in CallIds |-> 0]
    /\ opOutcomes = [c \in CallIds |-> <<>>]
    /\ delays = [c \in CallIds |-> <<>>]
    /\ settled = [c \in CallIds |-> NotCalled]
    /\ logs = <<>>
    /\ commitCalls = 0
    /\ commitPromise = NotCalled

\* retry.ts:165-170: a RetryableBatch right after construction
InitBatchWith(config) ==
    /\ batchConfig = mergeConfig(config)
    /\ batchOps = <<>>
    /\ operationCount = 0

InitPure ==
    /\ classified = NoVerdict
    /\ computed = NoDelay
    /\ observedCount = 0
    /\ preset = NoPreset

\* The settling steps of one invocation of retryOperation.
RetrySteps(c) ==
    \/ \E v \in OperationValues : OperationResolves(c, v)
    \/ \E val \in OperationErrors : OperationRejects(c, val)
    \/ SleepElapses(c)

(* Spec: one invocation of retryOperation, with any config and any        *)
(* behaviour of the operation.                                            *)
Init == InitCalls /\ InitBatchWith(PartialConfig(Absent, Absent, Absent, Absent))
             /\ InitPure

CallRetryOperation(c) ==
    \E input \in CallInputs :
        StartRetry(c, "user", input.name, input.config)

Next ==
    \/ CallRetryOperation(1) /\ UNCHANGED <<batchVars, pureVars>>
    \/ RetrySteps(1) /\ UNCHANGED <<batchVars, pureVars>>

Spec == Init /\ [][Next]_vars

(* SpecLive: the same, where every invocation of the operation completes  *)
(* and every timer of sleep() fires.                                      *)
OperationCompletes(c) ==
    /\ \/ \E v \in OperationValues : OperationResolves(c, v)
       \/ \E val \in OperationErrors : OperationRejects(c, val)
    /\ UNCHANGED <<batchVars, pureVars>>

DelayElapses(c) == SleepElapses(c) /\ UNCHANGED <<batchVars, pureVars>>

SpecLive ==
    /\ Init
    /\ [][Next]_vars
    /\ WF_vars(OperationCompletes(1))
    /\ WF_vars(DelayElapses(1))

(* SpecBatch: one RetryableBatch, writes added to it and one commit().    *)
InitBatch ==
    /\ InitCalls
    /\ \E config \in BatchPartialConfigs : InitBatchWith(config)
    /\ InitPure

AddWrite ==
    /\ operationCount < MaxOperations
    /\ \/ \E options \in BOOLEAN : BatchSet(options)
       \/ BatchUpdate
       \/ BatchDelete
    /\ UNCHANGED <<callVars, batchConfig, pureVars>>

Commit ==
    /\ commitPromise.state = "none"
    /\ BatchCommit(1)
    /\ UNCHANGED pureVars

NextBatch ==
    \/ AddWrite
    \/ Commit
    \/ RetrySteps(1) /\ UNCHANGED <<batchVars, pureVars>>

SpecBatch == InitBatch /\ [][NextBatch]_vars

(* SpecAccumulator: one RetryableBatch over its whole life: writes,       *)
(* getOperationCount() and commit() called again and again, each commit   *)
(* awaited before the next one is made.                                   *)
InitAccumulator ==
    /\ InitCalls
    /\ \E config \in AccumulatorConfigs : InitBatchWith(config)
    /\ InitPure

\* The commit() calls made so far: those that started a retry and those
\* that found the batch empty.
CommitsMade ==
    Cardinality({c \in CallIds : pc[c] # "idle"})
        + Cardinality({i \in 1..Len(logs) : logs[i] = EmptyBatchLog})

CommitAgain ==
    /\ CommitsMade < MaxCommits
    /\ commitPromise.state # "pending"
    /\ \E c \in CallIds :
          /\ pc[c] = "idle"
          /\ \A b \in CallIds : b < c => pc[b] # "idle"
          /\ BatchCommit(c)
    /\ UNCHANGED pureVars

\* How the underlying commit of one attempt ends.
CommitSettles(c) ==
    \/ OperationResolves(c, "v1")
    \/ \E val \in {UnavailableError, PermissionDeniedError} : OperationRejects(c, val)
    \/ SleepElapses(c)

NextAccumulator ==
    \/ AddWrite
    \/ GetOperationCount
    \/ CommitAgain
    \/ \E c \in CallIds : CommitSettles(c) /\ UNCHANGED <<batchVars, pureVars>>

SpecAccumulator == InitAccumulator /\ [][NextAccumulator]_vars

(* SpecClassifier: isRetryableFirestoreError applied to one error value.  *)
InitClassifier ==
    /\ InitCalls
    /\ InitBatchWith(PartialConfig(Absent, Absent, Absent, Absent))
    /\ computed = NoDelay
    /\ observedCount = 0
    /\ preset = NoPreset
    /\ \E error \in ClassifierErrors :
          classified = [error |-> error, done |-> FALSE, verdict |-> NotClassified]

Classify ==
    /\ ~classified.done
    /\ classified' = [classified EXCEPT
                         !.done = TRUE,
                         !.verdict = isRetryableFirestoreError(classified.error)]
    /\ UNCHANGED <<callVars, batchVars, computed, observedCount, preset>>

NextClassifier == Classify

SpecClassifier == InitClassifier /\ [][NextClassifier]_vars

(* SpecDelay: calculateDelay applied to one attempt number, one resolved  *)
(* config and one draw of Math.random().                                  *)
InitDelay ==
    /\ InitCalls
    /\ InitBatchWith(PartialConfig(Absent, Absent, Absent, Absent))
    /\ classified = NoVerdict
    /\ observedCount = 0
    /\ preset = NoPreset
    /\ \E config \in DelayConfigs, n \in 1..MaxAttemptNumber, random \in RandomDraws :
          computed = [config |-> config, attempt |-> n, random |-> random,
                      done |-> FALSE, ms |-> Num(0)]

ComputeDelay ==
    /\ ~computed.done
    /\ computed' = [computed EXCEPT
                       !.done = TRUE,
                       !.ms = calculateDelay(computed.attempt, computed.config,
                                             computed.random)]
    /\ UNCHANGED <<callVars, batchVars, classified, observedCount, preset>>

NextDelay == ComputeDelay

SpecDelay == InitDelay /\ [][NextDelay]_vars

(* SpecConcurrent: two invocations of retryOperation in flight at once,   *)
(* their attempts and delays interleaved in every order.                  *)
ConcurrentInputs ==
    {[name |-> name, config |-> PartialConfig(Num(r), Num(100), Absent, j)] :
        name \in OperationNames, r \in {1, 2, 3}, j \in {Num(0), Rat(1, 2)}}

CallConcurrently(c) ==
    \E input \in ConcurrentInputs :
        StartRetry(c, "user", input.name, input.config)

ConcurrentSteps(c) ==
    \/ OperationResolves(c, "v1")
    \/ \E val \in {UnavailableError, PermissionDeniedError} : OperationRejects(c, val)
    \/ SleepElapses(c)

NextConcurrent ==
    \E c \in CallIds :
        \/ CallConcurrently(c) /\ UNCHANGED <<batchVars, pureVars>>
        \/ ConcurrentSteps(c) /\ UNCHANGED <<batchVars, pureVars>>

SpecConcurrent == Init /\ [][NextConcurrent]_vars

(* SpecPresets: one member of RetryConfigs passed as the config, to       *)
(* createRetryableBatch and to retryOperation where it computes a delay.  *)
InitPresets ==
    /\ InitCalls
    /\ InitBatchWith(PartialConfig(Absent, Absent, Absent, Absent))
    /\ classified = NoVerdict
    /\ computed = NoDelay
    /\ observedCount = 0
    /\ \E p \in PresetNames : preset = [name |-> p, config |-> RetryConfigs[p]]

\* retry.ts:230-234 and 167-170: createRetryableBatch(RetryConfigs.X)
CreateBatchWithPreset ==
    /\ batchOps = <<>>
    /\ batchConfig' = mergeConfig(preset.config)
    /\ UNCHANGED <<callVars, batchOps, operationCount, pureVars>>

\* retry.ts:102: the merge of the preset in retryOperation, reaching the
\* delay of attempt n with the draw random
ResolvePreset ==
    /\ computed = NoDelay
    /\ \E n \in 1..MaxAttemptNumber, random \in RandomDraws :
          computed' = [config |-> mergeConfig(preset.config), attempt |-> n,
                       random |-> random, done |-> FALSE, ms |-> Num(0)]
    /\ UNCHANGED <<callVars, batchVars, classified, observedCount, preset>>

NextPresets ==
    \/ CreateBatchWithPreset
    \/ ResolvePreset
    \/ ComputeDelay

SpecPresets == InitPresets /\ [][NextPresets]_vars

---------------------------------------------------------------------------
(* Properties                                                              *)

\* v is a whole number of attempts, at least 1.
IsAttemptLimit(v) == v.t = "number" /\ v.d = 1 /\ v.n >= 1

\* The classifier returns true / returns false for the value.
ClassifiedRetryable(val) ==
    LET verdict == isRetryableFirestoreError(val)
    IN  ~verdict.threw /\ verdict.value
ClassifiedPermanent(val) ==
    LET verdict == isRetryableFirestoreError(val)
    IN  ~verdict.threw /\ ~verdict.value

\* The retry lines among the console.warn lines.
RetryLogCount == Cardinality({i \in 1..Len(logs) : logs[i].line = "retry"})

\* Invocation i of call c failed.
Failed(c, i) == ~opOutcomes[c][i].ok
LastOutcome(c) == opOutcomes[c][Len(opOutcomes[c])]

\* A failure the classifier calls not retryable ends the call at once, with
\* that very error, without a delay after it.
PermanentErrorEndsCall(c) ==
    \A i \in 1..Len(opOutcomes[c]) :
        (Failed(c, i) /\ ClassifiedPermanent(opOutcomes[c][i].error.val)) =>
            /\ Invocations(c) = i
            /\ pc[c] = "rejected"
            /\ settled[c] = Rejected(opOutcomes[c][i].error)
            /\ Len(delays[c]) = i - 1
            /\ \A k \in 1..Len(delays[c]) : delays[c][k].attempt < i

\* C1: in retryOperation, a failure of the operation that
\* isRetryableFirestoreError classifies as not retryable is followed by no
\* further invocation and no delay, and the call fails with that same error
\* value; on the first attempt the operation has then run exactly once, for
\* every maxRetries >= 1.
C1_PermanentErrorPropagates ==
    \A c \in CallIds : PermanentErrorEndsCall(c)

C1_Witness ==
    /\ pc[1] = "rejected"
    /\ opOutcomes[1] = <<[ok |-> FALSE, value |-> "",
                          error |-> Thrown(1, PermissionDeniedError)]>>
    /\ finalConfig[1].maxRetries = Num(MaxRetriesBound)
    /\ settled[1].error = Thrown(1, PermissionDeniedError)
    /\ delays[1] = <<>>

\* Every invocation so far failed with an error classified retryable.
AllRetryable(c) ==
    \A i \in 1..Len(opOutcomes[c]) :
        Failed(c, i) /\ ClassifiedRetryable(opOutcomes[c][i].error.val)

\* With only retryable failures the call goes on until maxRetries
\* invocations have failed, and then fails with the last error thrown.
ExhaustionPropagatesLast(c) ==
    (/\ IsAttemptLimit(finalConfig[c].maxRetries)
     /\ Len(opOutcomes[c]) >= 1
     /\ AllRetryable(c)) =>
        /\ Len(opOutcomes[c]) <= finalConfig[c].maxRetries.n
        /\ IF Len(opOutcomes[c]) = finalConfig[c].maxRetries.n
           THEN /\ pc[c] = "rejected"
                /\ Invocations(c) = finalConfig[c].maxRetries.n
                /\ settled[c] = Rejected(LastOutcome(c).error)
                /\ settled[c].error.ref = finalConfig[c].maxRetries.n
           ELSE pc[c] \in {"sleeping", "awaitOperation"}

\* C2: when every invocation fails with a retryable error, the operation is
\* invoked exactly maxRetries times and the call fails with the error of the
\* last invocation, not with an error made by retryOperation.
C2_ExhaustionAfterMaxRetries == \A c \in CallIds : ExhaustionPropagatesLast(c)

C2_Witness ==
    /\ pc[1] = "rejected"
    /\ finalConfig[1].maxRetries = Num(3)
    /\ operationName[1] = Txt_NameJob
    /\ Len(opOutcomes[1]) = 3
    /\ AllRetryable(1)
    /\ opOutcomes[1][1].error.val = UnavailableError
    /\ opOutcomes[1][3].error.val = DeadlineDetailsError
    /\ settled[1].error = Thrown(3, DeadlineDetailsError)

\* A call that returned: its last invocation succeeded, all earlier ones
\* failed retryably, and one delay was waited after each of those.
SuccessAfterRetries(c) ==
    /\ pc[c] = "fulfilled" =>
          LET k == Len(opOutcomes[c])
          IN  /\ k >= 1
              /\ opOutcomes[c][k].ok
              /\ settled[c] = Fulfilled(opOutcomes[c][k].value)
              /\ Invocations(c) = k
              /\ JSLessEq(Num(k), finalConfig[c].maxRetries)
              /\ \A i \in 1..(k - 1) :
                    Failed(c, i) /\ ClassifiedRetryable(opOutcomes[c][i].error.val)
              /\ Len(delays[c]) = k - 1
              /\ \A i \in 1..(k - 1) : delays[c][i].attempt = i
    /\ settled[c].state = "fulfilled" => pc[c] = "fulfilled"
    /\ \A i \in 1..Len(opOutcomes[c]) :
          opOutcomes[c][i].ok => (i = Len(opOutcomes[c]) /\ pc[c] = "fulfilled")

\* C3: when the first k-1 invocations fail retryably and the k-th succeeds,
\* the operation is invoked exactly k times, exactly k-1 delays are waited,
\* one after each failure, and the call returns the value of the k-th
\* invocation; the call returns a value only if an invocation succeeded.
C3_SuccessAfterTransientFailures == \A c \in CallIds : SuccessAfterRetries(c)

C3_Witness ==
    /\ pc[1] = "fulfilled"
    /\ Len(opOutcomes[1]) = 2
    /\ opOutcomes[1][1].error.val = UnavailableError
    /\ opOutcomes[1][2].ok
    /\ settled[1] = Fulfilled("v2")
    /\ Len(delays[1]) = 1

\* C4: with maxRetries = 1 the operation is invoked exactly once whatever
\* its outcome, and the call ends after it with no delay and no log line.
C4_SingleAttempt ==
    \A c \in CallIds :
        (pc[c] # "idle" /\ JSStrictEq(finalConfig[c].maxRetries, Num(1))) =>
            /\ Invocations(c) = 1
            /\ pc[c] \in {"awaitOperation", "fulfilled", "rejected"}
            /\ Len(opOutcomes[c]) = 1 => pc[c] \in {"fulfilled", "rejected"}
            /\ (pc[c] = "rejected" => settled[c] = Rejected(LastOutcome(c).error))
            /\ delays[c] = <<>>
            /\ RetryLogCount = 0

C4_Witness ==
    /\ pc[1] = "rejected"
    /\ finalConfig[1].maxRetries = Num(1)
    /\ Len(opOutcomes[1]) = 1
    /\ opOutcomes[1][1].error.val = UnavailableError
    /\ logs = <<>>

\* C5: a call that fails after at least one invocation fails with exactly
\* the value the last invocation threw, whatever the shape of that value.
C5_FailureIsLastThrown ==
    \A c \in CallIds :
        (pc[c] = "rejected" /\ Len(opOutcomes[c]) >= 1 /\ Failed(c, Len(opOutcomes[c]))) =>
            settled[c] = Rejected(LastOutcome(c).error)

\* The same, for thrown values on which the classifier does not end in a
\* TypeError, and for whole maxRetries >= 1.
FailureIsLastThrownUnlessClassifierThrows ==
    \A c \in CallIds :
        (/\ pc[c] = "rejected"
         /\ Len(opOutcomes[c]) >= 1
         /\ IsAttemptLimit(finalConfig[c].maxRetries)
         /\ settled[c].error.val.kind # "TypeError") =>
            settled[c] = Rejected(LastOutcome(c).error)

\* C6: isRetryableFirestoreError never throws: for every error value it
\* returns a boolean.
C6_ClassifierNeverThrows == classified.done => ~classified.verdict.threw

\* The classifier returns a boolean whenever message, details and msg are
\* each a string, null or undefined.
StringOrNothing(v) == v.t \in {"string", "null", "undefined"}
ClassifierReturnsOnStringFields ==
    (/\ classified.done
     /\ StringOrNothing(GetProp(classified.error, "message"))
     /\ StringOrNothing(GetProp(classified.error, "details"))
     /\ StringOrNothing(GetProp(classified.error, "msg"))) =>
        ~classified.verdict.threw

\* The text the rules of the classifier are stated on: the first non-empty
\* of message, details, msg, lowercased; empty if there is none.
FirstNonEmpty(error) ==
    LET fields == <<GetProp(error, "message"), GetProp(error, "details"),
                    GetProp(error, "msg")>>
        present == {i \in 1..3 : fields[i].t = "string" /\ fields[i].s # <<>>}
    IN  IF present = {} THEN <<>>
        ELSE fields[CHOOSE i \in present : \A j \in present : i <= j].s

TransientPatterns ==
    {Pat_quota_exceeded, Pat_write_limit, Pat_unavailable, Pat_timeout,
     Pat_deadline_exceeded, Pat_internal_server_error, Pat_resource_exhausted}

ExpectedVerdict(error) ==
    LET code == GetProp(error, "code")
        text == toLowerCase(FirstNonEmpty(error))
    IN  \/ code.t = "number" /\ code.d = 1 /\ code.n \in {8, 13, 14}
        \/ \E pattern \in TransientPatterns : includes(text, pattern)

\* C7: isRetryableFirestoreError returns true exactly when code is 8, 13 or
\* 14 or the lowercased first non-empty of message, details, msg contains a
\* transient pattern, and returns false otherwise.
C7_ClassifierTable ==
    classified.done =>
        /\ ~classified.verdict.threw
        /\ classified.verdict.value = ExpectedVerdict(classified.error)

\* The table, on the error values for which the classifier returns.
ClassifierTableWhenItReturns ==
    (classified.done /\ ~classified.verdict.threw) =>
        classified.verdict.value = ExpectedVerdict(classified.error)

\* Exact arithmetic on n/d with d > 0, for stating the bounds.
QLe(a, b) == a.n * b.d <= b.n * a.d
QEq(a, b) == a.n * b.d = b.n * a.d
QLt(a, b) == a.n * b.d < b.n * a.d
QTimes(a, b) == [n |-> a.n * b.n, d |-> a.d * b.d]
QMin(a, b) == IF QLe(a, b) THEN a ELSE b
QInt(k) == [n |-> k, d |-> 1]

\* 2^k by repeated doubling
RECURSIVE Doubled(_)
Doubled(k) == IF k <= 0 THEN 1 ELSE 2 * Doubled(k - 1)

\* A config inside the documented ranges: a whole maxRetries >= 1, delays
\* that are not negative and a jitterFactor in [0, 1).
IsQuantity(v) == v.t = "number" /\ v.d > 0 /\ v.n >= 0
DocumentedConfig(config) ==
    /\ IsAttemptLimit(config.maxRetries)
    /\ IsQuantity(config.baseDelay)
    /\ IsQuantity(config.maxDelay)
    /\ IsQuantity(config.jitterFactor)
    /\ QLt(config.jitterFactor, QInt(1))

\* baseDelay * 2^(n-1)
Growth(n, config) == QTimes(config.baseDelay, QInt(Doubled(n - 1)))
\* baseDelay * 2^(n-1) * (1 + jitterFactor)
GrowthWithFullJitter(n, config) ==
    QTimes(Growth(n, config),
           [n |-> config.jitterFactor.d + config.jitterFactor.n,
            d |-> config.jitterFactor.d])

DelayWithinBounds(n, config, ms) ==
    /\ ms.t = "number" /\ ms.d > 0
    /\ QLe(QMin(Growth(n, config), config.maxDelay), ms)
    /\ QLe(ms, QMin(GrowthWithFullJitter(n, config), config.maxDelay))
    /\ QLe(ms, config.maxDelay)
    /\ QLt(config.maxDelay, config.baseDelay) => QEq(ms, config.maxDelay)

\* C8: for every resolved config, attempt number n >= 1 and jitter draw, the
\* delay of calculateDelay lies between min(baseDelay * 2^(n-1), maxDelay)
\* and min(baseDelay * 2^(n-1) * (1 + jitterFactor), maxDelay), never exceeds
\* maxDelay, and equals maxDelay whenever maxDelay < baseDelay.
C8_DelayBounds ==
    (computed.done /\ DocumentedConfig(computed.config)) =>
        DelayWithinBounds(computed.attempt, computed.config, computed.ms)

\* Attempt 3 with jitter and a draw above 0, below the cap: the delay lies
\* strictly between the two bounds' extremes.
C8_Witness ==
    /\ computed.done
    /\ computed.attempt = 3
    /\ computed.config.baseDelay = Num(100)
    /\ computed.config.maxDelay = Num(30000)
    /\ computed.config.jitterFactor = Rat(1, 2)
    /\ computed.random.n > 0
    /\ QLt(Growth(3, computed.config), computed.ms)
    /\ QLt(computed.ms, computed.config.maxDelay)

\* Within one call: the delays do not decrease, a delay at the cap is
\* followed only by delays at the cap, and without jitter and below the cap
\* the delay after failed attempt n is baseDelay * 2^(n-1).
DelaysGrowToCap(c) ==
    DocumentedConfig(finalConfig[c]) =>
        /\ \A i \in 1..Len(delays[c]) :
              LET n == delays[c][i].attempt
                  ms == delays[c][i].ms
              IN  /\ n = i
                  /\ ms.t = "number" /\ ms.d > 0
                  /\ QLe(QMin(Growth(n, finalConfig[c]), finalConfig[c].maxDelay), ms)
                  /\ (/\ finalConfig[c].jitterFactor.n = 0
                      /\ QLe(Growth(n, finalConfig[c]), finalConfig[c].maxDelay)) =>
                        QEq(ms, Growth(n, finalConfig[c]))
        /\ \A i \in 1..(Len(delays[c]) - 1) :
              /\ QLe(delays[c][i].ms, delays[c][i + 1].ms)
              /\ QEq(delays[c][i].ms, finalConfig[c].maxDelay) =>
                    QEq(delays[c][i + 1].ms, finalConfig[c].maxDelay)

\* C9: the delay without jitter and cap is baseDelay * 2^(n-1); within one
\* retry sequence the delay after failed attempt n+1 is never smaller than
\* the one after failed attempt n, and once a delay equals maxDelay every
\* later delay equals maxDelay.
C9_DelaysMonotone == \A c \in CallIds : DelaysGrowToCap(c)

\* Three delays of one call: below the cap, then at the cap twice.
C9_Witness ==
    /\ Len(delays[1]) = 3
    /\ DocumentedConfig(finalConfig[1])
    /\ finalConfig[1].jitterFactor = Rat(9, 10)
    /\ QLt(delays[1][1].ms, delays[1][2].ms)
    /\ QLt(Growth(1, finalConfig[1]), delays[1][1].ms)
    /\ QEq(delays[1][2].ms, finalConfig[1].maxDelay)
    /\ QEq(delays[1][3].ms, finalConfig[1].maxDelay)

\* While and after commit() runs a retry: it is the one retryOperation call
\* of the batch, on batch.commit(), under the name "Firestore batch commit"
\* and the config of the accumulator; every invocation of its operation is
\* one underlying commit; the promise of commit() settles as that call does;
\* and the call keeps the retry discipline.
CommitRunsUnderRetry ==
    pc[1] # "idle" =>
        /\ operationCount >= 1
        /\ operation[1] = "batchCommit"
        /\ operationName[1] = Txt_NameBatchCommit
        /\ finalConfig[1] = batchConfig
        /\ commitCalls = Invocations(1)
        /\ commitPromise.state = settled[1].state
        /\ commitPromise.error = settled[1].error
        /\ commitPromise.state = "fulfilled" => commitPromise.value = "undefined"
        /\ PermanentErrorEndsCall(1)
        /\ ExhaustionPropagatesLast(1)
        /\ SuccessAfterRetries(1)
        /\ DelaysGrowToCap(1)
        /\ RetryLogCount = Len(delays[1])

\* A commit() that started no retry resolved without an underlying commit.
SkippedCommitResolved ==
    (pc[1] = "idle" /\ commitPromise.state # "none") =>
        /\ commitCalls = 0
        /\ commitPromise = Fulfilled("undefined")

\* The step commit() takes: with no write accumulated it starts no call and
\* resolves; with one or more it starts the retry.
CommitStep ==
    (commitPromise.state = "none" /\ commitPromise'.state # "none") =>
        IF operationCount = 0
        THEN /\ pc' = pc
             /\ commitCalls' = 0
             /\ opOutcomes' = opOutcomes
             /\ commitPromise' = Fulfilled("undefined")
        ELSE /\ pc'[1] # "idle"
             /\ finalConfig'[1] = batchConfig
             /\ operationName'[1] = Txt_NameBatchCommit

\* C10: RetryableBatch.commit with zero accumulated operations makes no call
\* to the underlying batch commit and resolves; with one or more it runs the
\* underlying commit under the retry discipline of retryOperation, with the
\* config of the accumulator and the name "Firestore batch commit", the
\* whole commit being retried as one unit.
C10_CommitDelegatesToRetry ==
    /\ [](CommitRunsUnderRetry /\ SkippedCommitResolved)
    /\ [][CommitStep]_vars

\* Two writes, a commit that failed retryably once and then went through:
\* two underlying commits, one delay.
C10_Witness ==
    /\ operationCount = 2
    /\ commitCalls = 2
    /\ commitPromise = Fulfilled("undefined")
    /\ Len(delays[1]) = 1
    /\ opOutcomes[1][1].error.val = UnavailableError
    /\ batchConfig.baseDelay = Num(100)

---------------------------------------------------------------------------
(* The operation count of the accumulator                                  *)

\* The writes the underlying batch has received are the calls made.
CountIsCallsMade == operationCount = Len(batchOps)

\* set(), update() and delete() each hand one write on and add exactly 1.
WriteAddsOne ==
    batchOps' # batchOps =>
        /\ Len(batchOps') = Len(batchOps) + 1
        /\ SubSeq(batchOps', 1, Len(batchOps)) = batchOps
        /\ batchOps'[Len(batchOps')].op \in {"set", "update", "delete"}
        /\ operationCount' = operationCount + 1

\* The count moves only when a write is made.
CountMovesWithWrites ==
    operationCount' # operationCount => batchOps' # batchOps

\* getOperationCount() returns the count and writes nothing.
GetterIsPure ==
    observedCount' # observedCount =>
        /\ observedCount' = operationCount
        /\ UNCHANGED <<callVars, batchVars, classified, computed>>

\* C11: after any sequence of set, update and delete calls on a
\* RetryableBatch, in any mix and order, getOperationCount equals the number
\* of those calls made; it starts at 0, each call adds exactly 1, and
\* getOperationCount itself changes nothing.
C11_CountEqualsCallsMade ==
    /\ [](CountIsCallsMade)
    /\ [][WriteAddsOne /\ CountMovesWithWrites /\ GetterIsPure]_vars

\* A set() and a delete() were made and getOperationCount() answered 2.
C11_Witness ==
    /\ Len(batchOps) = 2
    /\ batchOps[1].op = "set"
    /\ batchOps[2].op = "delete"
    /\ observedCount = 2

---------------------------------------------------------------------------
(* The resolved configuration                                              *)

ConfigFields == {"maxRetries", "baseDelay", "maxDelay", "jitterFactor"}

\* No field of the config is absent or undefined.
FullyResolved(config) ==
    \A f \in ConfigFields : config[f].t \notin {"absent", "undefined"}

\* C12: the effective configuration used by retryOperation and by
\* RetryableBatch is always fully resolved before use: whatever partial
\* config was supplied, a field present with the value undefined included,
\* each of maxRetries, baseDelay, maxDelay and jitterFactor of the resolved
\* config holds the supplied value or its default and is never absent or
\* undefined.
C12_ConfigFullyResolved ==
    /\ FullyResolved(batchConfig)
    /\ \A c \in CallIds : pc[c] # "idle" => FullyResolved(finalConfig[c])

---------------------------------------------------------------------------
(* The presets                                                             *)

\* The preset merged with the defaults, as the documentation of the
\* defaults gives it.
PresetWithDefaultJitter ==
    [preset.config EXCEPT !.jitterFactor = Rat(1, 10)]

\* The configs in use: the one calculateDelay is applied to and the one the
\* batch holds.
ConfigsInUse == {computed.config, batchConfig}

\* C13: each of the four named presets (FAST, STANDARD, AGGRESSIVE, PATIENT)
\* is a fully-resolved configuration that itself specifies all four tunable
\* fields maxRetries, baseDelay, maxDelay and jitterFactor, and the presets
\* differ from each other only in maxRetries, baseDelay and maxDelay.
C13_PresetsFullySpecified ==
    preset.name \in PresetNames =>
        /\ FullyResolved(preset.config)
        /\ \A p \in PresetNames :
              RetryConfigs[p].jitterFactor = preset.config.jitterFactor

\* C13, amended: each of the four named presets specifies maxRetries,
\* baseDelay and maxDelay as whole numbers and has no jitterFactor; merged
\* with the defaults, by retryOperation and by RetryableBatch, it gives a
\* fully-resolved configuration with those three values and the default
\* jitterFactor 0.1; the presets differ from each other only in maxRetries,
\* baseDelay and maxDelay.
C13_PresetsSpecifyThreeFields ==
    preset.name \in PresetNames =>
        /\ \A f \in {"maxRetries", "baseDelay", "maxDelay"} :
              IsAttemptLimit(preset.config[f])
        /\ preset.config.jitterFactor = Absent
        /\ \A p \in PresetNames :
              RetryConfigs[p].jitterFactor = preset.config.jitterFactor
        /\ \A config \in ConfigsInUse :
              /\ FullyResolved(config)
              /\ config \in {DEFAULT_RETRY_CONFIG, PresetWithDefaultJitter}
        /\ computed.done =>
              computed.ms = calculateDelay(computed.attempt, computed.config,
                                           computed.random)

\* RetryConfigs.AGGRESSIVE given to createRetryableBatch and to a call that
\* computed the delay after its second attempt with a draw of 1/2:
\* 2000 + 2000 * 0.1 * 0.5 = 2100.
C13_Witness ==
    /\ preset.name = "AGGRESSIVE"
    /\ batchConfig.maxRetries = Num(10)
    /\ batchConfig.jitterFactor = Rat(1, 10)
    /\ computed.done
    /\ computed.attempt = 2
    /\ computed.random = Rat(1, 2)
    /\ computed.config.maxDelay = Num(60000)
    /\ QEq(computed.ms, Num(2100))

---------------------------------------------------------------------------
(* Calls in flight together                                                *)

\* What one invocation of retryOperation holds in its closure.
CallState(c) ==
    <<pc[c], finalConfig[c], operationName[c], operation[c], attempt[c],
      opOutcomes[c], delays[c], settled[c]>>

\* The attempt counter and the delays of a call follow from the outcomes of
\* its own operation alone.
OwnCounterAndDelays(c) ==
    /\ pc[c] = "idle" => attempt[c] = 0 /\ opOutcomes[c] = <<>> /\ delays[c] = <<>>
    /\ pc[c] = "awaitOperation" =>
          /\ attempt[c] = Len(opOutcomes[c]) + 1
          /\ Len(delays[c]) = Len(opOutcomes[c])
    /\ pc[c] = "sleeping" =>
          /\ attempt[c] = Len(opOutcomes[c])
          /\ Len(delays[c]) = Len(opOutcomes[c])
    /\ pc[c] \in {"fulfilled", "rejected"} =>
          /\ attempt[c] = Len(opOutcomes[c])
          /\ Len(delays[c]) = Len(opOutcomes[c]) - 1
    /\ \A k \in 1..Len(delays[c]) :
          /\ delays[c][k].attempt = k
          /\ \E random \in RandomDraws :
                delays[c][k].ms = calculateDelay(k, finalConfig[c], random)

\* A step moves one call and leaves every other call as it was.
OneCallMoves ==
    \A c, b \in CallIds :
        (c # b /\ CallState(c)' # CallState(c)) => CallState(b)' = CallState(b)

\* C14: concurrent invocations of retryOperation do not interfere: with two
\* calls in flight, their attempts and delays interleaved in any order, each
\* call keeps its own attempt counter and delays, each call's invocations,
\* delays and outcome are what they are for a call running alone, and no
\* step of one call changes the attempt counter or config of another.
C14_CallsDoNotInterfere ==
    /\ [](\A c \in CallIds :
             /\ OwnCounterAndDelays(c)
             /\ PermanentErrorEndsCall(c)
             /\ ExhaustionPropagatesLast(c)
             /\ SuccessAfterRetries(c))
    /\ [](RetryLogCount = Len(delays[1]) + Len(delays[2]))
    /\ [][OneCallMoves]_vars

\* Both calls in flight under the same name: call 1 sleeps after its second
\* failure while call 2, started with a single attempt, awaits its first.
C14_Witness ==
    /\ pc[1] = "sleeping"
    /\ attempt[1] = 2
    /\ finalConfig[1].maxRetries = Num(3)
    /\ pc[2] = "awaitOperation"
    /\ attempt[2] = 1
    /\ finalConfig[2].maxRetries = Num(1)
    /\ operationName[1] = operationName[2]

---------------------------------------------------------------------------
(* Termination                                                             *)

\* The whole attempts a limit allows: none for a limit that is no number
\* or is below 1.
AttemptsAllowed(v) ==
    IF v.t = "number" /\ v.d > 0 /\ v.n >= v.d THEN v.n \div v.d ELSE 0

\* The operation is invoked at most maxRetries times.
InvocationsBounded(c) ==
    pc[c] # "idle" => Invocations(c) <= AttemptsAllowed(finalConfig[c].maxRetries)

\* A started call that has not settled is waiting for its operation or for
\* a timer, and for nothing else.
WaitsOnlyForOperationOrTimer(c) ==
    /\ pc[c] \in {"idle", "awaitOperation", "sleeping", "fulfilled", "rejected"}
    /\ pc[c] \in {"awaitOperation", "sleeping"} <=> settled[c] = Pending
    /\ pc[c] = "fulfilled" <=> settled[c].state = "fulfilled"
    /\ pc[c] = "rejected" <=> settled[c].state = "rejected"

\* C15: retryOperation never retries indefinitely: in every run the
\* operation is invoked at most maxRetries times, and provided every
\* invocation of the operation completes and every delay elapses, the call
\* eventually settles; a call that never settles is held by an invocation
\* that never completes.
C15_CallTerminates ==
    /\ [](\A c \in CallIds : InvocationsBounded(c) /\ WaitsOnlyForOperationOrTimer(c))
    /\ (pc[1] # "idle") ~> (pc[1] \in {"fulfilled", "rejected"})

\* A call that used up its three attempts and the two delays between them.
C15_Witness ==
    /\ pc[1] = "rejected"
    /\ finalConfig[1].maxRetries = Num(3)
    /\ Len(opOutcomes[1]) = 3
    /\ Len(delays[1]) = 2
    /\ settled[1].error.ref = 3

---------------------------------------------------------------------------
(* The error after the loop                                                *)

\* The call failed with the error of retry.ts:131.
FailedWithGenericError(c) ==
    /\ pc[c] = "rejected"
    /\ settled[c] = Rejected(Thrown(0, MaxRetriesError(operationName[c])))

\* C16: for every configuration with maxRetries >= 1 and every behaviour of
\* the operation, the attempt loop never exits without returning or
\* throwing: the generic "Max retries exceeded for <name>" error is not a
\* reachable outcome, so every failure of the call is an error thrown by the
\* operation.
C16_GenericErrorUnreachable ==
    \A c \in CallIds :
        (pc[c] # "idle" /\ JSLessEq(Num(1), finalConfig[c].maxRetries)) =>
            /\ ~FailedWithGenericError(c)
            /\ pc[c] = "rejected" =>
                  /\ Len(opOutcomes[c]) >= 1
                  /\ settled[c] = Rejected(LastOutcome(c).error)

\* With a whole maxRetries >= 1 the loop is never left by its condition.
GenericErrorUnreachableForWholeLimits ==
    \A c \in CallIds :
        (pc[c] # "idle" /\ IsAttemptLimit(finalConfig[c].maxRetries)) =>
            ~FailedWithGenericError(c)

---------------------------------------------------------------------------
(* Where the delays fall                                                   *)

\* Delay k was waited after failed attempt k, that failure was classified
\* retryable and attempt k was not the last one the limit allows; it was
\* computed with attempt number k.
DelayFollowsRetryableFailure(c, k) ==
    /\ delays[c][k].attempt = k
    /\ k <= Len(opOutcomes[c])
    /\ Failed(c, k)
    /\ ClassifiedRetryable(opOutcomes[c][k].error.val)
    /\ k < AttemptsAllowed(finalConfig[c].maxRetries)
    /\ \E random \in RandomDraws :
          delays[c][k].ms = calculateDelay(k, finalConfig[c], random)

\* Retry line k of the log reports delay k.
LogReportsDelay(c, k) ==
    /\ logs[k].line = "retry"
    /\ logs[k].attempt = k
    /\ logs[k].ms = MathRound(delays[c][k].ms)
    /\ logs[k].name = operationName[c]

\* The delays of call c stand between its attempts and nowhere else.
DelaysOnlyBetweenAttempts(c) ==
    /\ \A k \in 1..Len(delays[c]) : DelayFollowsRetryableFailure(c, k)
    /\ Len(logs) = Len(delays[c])
    /\ \A k \in 1..Len(logs) : LogReportsDelay(c, k)
    /\ pc[c] = "awaitOperation" => Len(delays[c]) = Len(opOutcomes[c])
    /\ pc[c] = "sleeping" => Len(delays[c]) = Len(opOutcomes[c])
    /\ Len(opOutcomes[c]) = 0 => delays[c] = <<>>
    /\ pc[c] = "fulfilled" => Len(delays[c]) = Len(opOutcomes[c]) - 1
    /\ (pc[c] = "rejected" /\ Len(opOutcomes[c]) >= 1) =>
          Len(delays[c]) = Len(opOutcomes[c]) - 1

\* A wait begins with its delay and its log line written together, and the
\* operation is invoked again only from the end of a wait.
WaitThenInvoke ==
    /\ (pc[1] # "sleeping" /\ pc'[1] = "sleeping") =>
          /\ Len(delays'[1]) = Len(delays[1]) + 1
          /\ Len(logs') = Len(logs) + 1
          /\ opOutcomes'[1][Len(opOutcomes'[1])].ok = FALSE
    /\ (pc[1] # "awaitOperation" /\ pc'[1] = "awaitOperation") =>
          /\ pc[1] \in {"idle", "sleeping"}
          /\ UNCHANGED <<delays, logs>>
    /\ (delays' # delays \/ logs' # logs) => pc'[1] = "sleeping"

\* C17: a delay is waited only after a failed attempt that is retryable and
\* is not the final allowed attempt; the delay after failed attempt k is
\* computed with attempt number k and exactly one log line is written for
\* it; while the call waits no invocation is pending. No delay and no log
\* occur before the first attempt, after a success, or before the final
\* failure is propagated.
C17_DelaysOnlyBetweenAttempts ==
    pc[1] # "idle" => DelaysOnlyBetweenAttempts(1)

\* The same for limits that are whole numbers (or no number at all),
\* together with the order of the steps: delay and log line first, then the
\* wait, then the next invocation.
DelaysOnlyBetweenAttemptsForWholeLimits ==
    /\ []((pc[1] # "idle" /\ (finalConfig[1].maxRetries.t = "number"
                                 => finalConfig[1].maxRetries.d = 1))
             => DelaysOnlyBetweenAttempts(1))
    /\ [][WaitThenInvoke]_vars

---------------------------------------------------------------------------
(* Rule 1 of the classifier                                                *)

\* The classifier with its first rule taken out: the message chain and the
\* code are read as before, then rules 2 to 6 apply.
ClassifierWithoutRule1(error) ==
    LET m == errorMessageOf(error)
    IN  IF m.threw THEN [threw |-> TRUE, value |-> FALSE]
        ELSE [threw |-> FALSE,
              value |-> classifyRulesAfterFirst(GetProp(error, "code"), m.val.s)]

\* C18: rule 1 of the classifier (code 13 and message contains "rst_stream")
\* is subsumed by rule 5 (code 13 alone): for every error value the
\* classifier gives the verdict of the same classifier without rule 1.
C18_Rule1Subsumed ==
    classified.done =>
        classified.verdict = ClassifierWithoutRule1(classified.error)

\* An error rule 1 applies to, and no rule between 1 and 5: code 13 with a
\* message that contains "rst_stream".
C18_Witness ==
    /\ classified.done
    /\ ~classified.verdict.threw
    /\ classified.verdict.value
    /\ JSStrictEq(GetProp(classified.error, "code"), Num(13))
    /\ includes(errorMessageOf(classified.error).val.s, Pat_rst_stream)
    /\ ~includes(errorMessageOf(classified.error).val.s, Pat_unavailable)

---------------------------------------------------------------------------
(* A limit of zero or less                                                 *)

---------------------------------------------------------------------------
(* What commit() leaves alone                                              *)

\* A step of a commit, from the call of commit() to the settling of its
\* promise, writes neither the count nor the accumulated batch.
CommitKeepsBatch ==
    callVars' # callVars => UNCHANGED <<batchConfig, batchOps, operationCount>>

\* commit() on an accumulator that holds a write starts a retry whose first
\* attempt is one more underlying commit, however many commits came before.
CommitInvokesUnderlying ==
    (CommitsMade' = CommitsMade + 1 /\ operationCount >= 1) =>
        \E c \in CallIds :
            /\ pc[c] = "idle"
            /\ pc'[c] = "awaitOperation"
            /\ operation'[c] = "batchCommit"
            /\ operationName'[c] = Txt_NameBatchCommit
            /\ finalConfig'[c] = batchConfig
            /\ commitCalls' = commitCalls + 1

\* Every underlying commit is an attempt of one of the retries.
UnderlyingCommitsAreAttempts ==
    commitCalls = Invocations(1) + Invocations(2)

\* C20: RetryableBatch.commit leaves the operation count and the
\* accumulated batch unchanged, whether the commit is skipped, succeeds or
\* fails: getOperationCount returns the same value before and after, the
\* accumulator is never reset, and a second commit on an accumulator with
\* one or more operations invokes the underlying batch commit again through
\* the retry discipline instead of being a no-op.
C20_CommitKeepsAccumulator ==
    /\ [](CountIsCallsMade /\ UnderlyingCommitsAreAttempts)
    /\ [][CommitKeepsBatch /\ CommitInvokesUnderlying]_vars

\* One write; a first commit that went through after a retry and a second
\* commit that failed for good: three underlying commits, the count still 1.
C20_Witness ==
    /\ operationCount = 1
    /\ Len(batchOps) = 1
    /\ observedCount = 1
    /\ pc[1] = "fulfilled"
    /\ Len(opOutcomes[1]) = 2
    /\ pc[2] = "rejected"
    /\ settled[2].error = Thrown(1, PermissionDeniedError)
    /\ commitCalls = 3
    /\ commitPromise.state = "rejected"

===========================================================================
